---- MODULE Spec2Model ----
(***************************************************************************)
(* Frame-indexed camera data channel of sl.reflex                          *)
(* (ReflexCameraDataManager<T>, source/plugins/sl.reflex/reflexEntry.cpp). *)
(*                                                                         *)
(* A producer calls insertCameraData(frameID, data); consumers call        *)
(* getCameraData(frameID), which looks the frame up under framesMutex and  *)
(* otherwise waits on getFrameCV with a timeout.  Every critical section   *)
(* of the class is one action: the mutex makes it atomic, and the only     *)
(* place a thread gives the mutex up inside a section is the condition     *)
(* variable wait, which is a state of its own ("waiting").                 *)
(***************************************************************************)
EXTENDS Integers, Sequences, FiniteSets, TLC

\* Ring capacity.  The macro is defined outside the files modelled here; the
\* model treats it as a parameter.
MAX_FRAMES_IN_FLIGHT == 2

\* Largest frame index the producer and the consumers use.
MaxFrame == 7

\* Longest recorded history of insertCameraData calls, and the most
\* slReflexSetCameraData calls of one behaviour.
MaxWrites == 2

\* The count of timed waits of one call saturates here.
MaxWaits == 2

\* reflexEntry.cpp:124  auto timeout = frameID < 5 ? 0ms : 100ms;
NoWaitFrames == 5
TimeoutMs == 100

Frames == 0 .. MaxFrame

\* T{}: the value a value-initialized slot holds (cameraData.resize).
DefaultT == "T{}"

\* Camera data the producer passes in.
Values == {"v1", "v2"}

\* std::nullopt
nullopt == "nullopt"

Threads == {"t1", "t2"}

VARIABLES
    cameraData,   \* std::vector<std::pair<uint32_t, T>>, indexed 0 .. N-1
    lastFrame,    \* uint32_t lastFrame
    pc,           \* per consumer thread: where it is in getCameraData
    frameID,      \* per consumer thread: argument of its getCameraData call
    result,       \* per consumer thread: what its last call returned
    timedWaits,   \* per consumer thread: timed waits the current call started
    history,      \* the insertCameraData calls made so far, in order
    insertLog,    \* the warning the last recorded insertCameraData call logged
    timer         \* per consumer thread: the timeout of its wait_for

camVars == <<cameraData, lastFrame, pc, frameID, result, timedWaits, history,
             insertLog, timer>>

\* The Reflex plugin context (camera part): two channels and the inputs
\* of the prediction.
VARIABLES
    simCameraData,          \* channel of the camera data the application set
    predCameraData,         \* channel of the predicted camera data
    predictCamera,          \* set once a predicted value has been asked for
    prevWorldToViewMatrix,  \* matrices of the previous slReflexSetCameraData
    prevViewToClipMatrix,
    outCameraData,          \* the caller's output structure
    apiResult,              \* the sl::Result of the last call
    lastCall,               \* the last call made: [op, frame]
    setCalls,               \* number of slReflexSetCameraData calls so far
    lastStored              \* camera data last stored in the sim channel

reflexVars == <<simCameraData, predCameraData, predictCamera,
                prevWorldToViewMatrix, prevViewToClipMatrix, outCameraData,
                apiResult, lastCall, setCalls, lastStored>>

\* One dispatch of an intercepted Vulkan entry point per caller.
VARIABLES
    hpc,          \* per caller: position in the wrapper
    functionID,   \* per caller: the entry point being dispatched
    nBefore,      \* per caller: length of the before-hook list it got
    nAfter,       \* per caller: length of the after-hook list it got
    idx,          \* per caller: hooks of the current phase already run
    skip,         \* per caller: the wrapper's local skip flag
    vkResult,     \* per caller: the wrapper's local result
    events        \* per caller: hook and native calls made, in order

hookVars == <<hpc, functionID, nBefore, nAfter, idx, skip, vkResult, events>>

\* The per-frame resource tag store (ResourceTaggingForFrame).
VARIABLES
    m_frames,                 \* per slot: [frameIndex, tags]
    lockReaders,              \* per slot: threads holding the shared lock
    lockWriter,               \* per slot: thread holding the exclusive lock
    m_recyclingMutex,         \* thread holding the recycling mutex
    m_prevSeenAppFrameIndex,  \* application frame of the last recycleTags
    tpc,                      \* per thread: position in its operation
    top,                      \* per thread: [frame, key, slot] of the operation
    tagResult,                \* per thread: what its last operation returned
    assertFailed,             \* the assert of setFrameIndex has failed
    recycledFrames            \* history: frames recycled and not tagged since

tagVars == <<m_frames, lockReaders, lockWriter, m_recyclingMutex,
             m_prevSeenAppFrameIndex, tpc, top, tagResult,
             assertFailed, recycledFrames>>

\* Name resolution of the Vulkan interposer (vkGetInstanceProcAddr and
\* vkGetDeviceProcAddr of wrapper.cpp).
VARIABLES
    s_module,        \* the Vulkan library is loaded (HMODULE is not null)
    instanceProcs,   \* per name: what vkGetInstanceProcAddr last returned
    deviceProcs      \* per name: what vkGetDeviceProcAddr last returned

procVars == <<s_module, instanceProcs, deviceProcs>>

\* TAverageValueMeter<WINDOW_SIZE> of extra.h.
VARIABLES
    meter,           \* [n, val, sum, mean, window]
    windowWritten,   \* the indexes of window that hold a written value
    added            \* history: the values added since construction or reset

meterVars == <<meter, windowWritten, added>>

vars == <<camVars, reflexVars, hookVars, tagVars, procVars, meterVars>>

\* Mutant: the ring index is off by one.
Slot_Mut(f) == (f + 1) % MAX_FRAMES_IN_FLIGHT

Slot(f) == f % MAX_FRAMES_IN_FLIGHT

Min(a, b) == IF a < b THEN a ELSE b

\* Mutant: the two timeouts are swapped.
TimeoutFor_Mut(f) == IF f < NoWaitFrames THEN TimeoutMs ELSE 0

TimeoutFor(f) == IF f < NoWaitFrames THEN 0 ELSE TimeoutMs

\* float4x4{}: the matrices of the context before any camera data is set.
ZeroMatrix == [zero |-> TRUE]

\* ReflexCameraData{} and ReflexPredictedCameraData{}.
DefaultCameraData ==
    [worldToViewMatrix |-> ZeroMatrix, viewToClipMatrix |-> ZeroMatrix]

DefaultPredictedCameraData ==
    [predictedWorldToViewMatrix |-> ZeroMatrix,
     predictedViewToClipMatrix |-> ZeroMatrix]

\* A channel as constructed: every slot is {0, T{}}, lastFrame is 0.
EmptyChannel(default) ==
    [cameraData |-> [s \in 0 .. MAX_FRAMES_IN_FLIGHT - 1 |->
                        [first |-> 0, second |-> default]],
     lastFrame |-> 0]

\* What the caller's output structure holds before the call.
CallerData == [caller |-> TRUE]

\* std::optional values of the channels of the plugin context.
NullOpt == [has_value |-> FALSE]

Optional(v) == [has_value |-> TRUE, value |-> v]

ReflexInit ==
    /\ simCameraData = EmptyChannel(DefaultCameraData)
    /\ predCameraData = EmptyChannel(DefaultPredictedCameraData)
    /\ predictCamera = FALSE
    /\ prevWorldToViewMatrix = ZeroMatrix
    /\ prevViewToClipMatrix = ZeroMatrix
    /\ outCameraData = CallerData
    /\ apiResult = "eOk"
    /\ lastCall = [op |-> "none", frame |-> 0]
    /\ setCalls = 0
    /\ lastStored = [none |-> TRUE]

\* Threads of the application calling intercepted Vulkan functions.
Callers == {"app1", "app2"}

HookInit ==
    /\ hpc = [c \in Callers |-> "idle"]
    /\ functionID = [c \in Callers |-> "none"]
    /\ nBefore = [c \in Callers |-> 0]
    /\ nAfter = [c \in Callers |-> 0]
    /\ idx = [c \in Callers |-> 0]
    /\ skip = [c \in Callers |-> FALSE]
    /\ vkResult = [c \in Callers |-> "VK_SUCCESS"]
    /\ events = [c \in Callers |-> << >>]

\* std::array<ProtectedResourceTagContainer, 32> m_frames.
TagFrameCount == 32

TagSlots == 0 .. TagFrameCount - 1

\* The simulation thread tags, the render thread reads, the present thread
\* recycles.
TagThreads == {"sim", "render", "present"}

NoThread == "none"

\* A thread outside the store has no operation and no result in hand.
NoOperation == [frame |-> 0, key |-> "none", slot |-> 0]

NoResult == "none"

TagInit ==
    /\ m_frames = [s \in TagSlots |-> [frameIndex |-> 0, tags |-> {}]]
    /\ lockReaders = [s \in TagSlots |-> {}]
    /\ lockWriter = [s \in TagSlots |-> NoThread]
    /\ m_recyclingMutex = NoThread
    /\ m_prevSeenAppFrameIndex = 0
    /\ tpc = [t \in TagThreads |-> "idle"]
    /\ top = [t \in TagThreads |-> NoOperation]
    /\ tagResult = [t \in TagThreads |-> NoResult]
    /\ assertFailed = FALSE
    /\ recycledFrames = {}

\* Bound: WINDOW_SIZE, the template parameter of TAverageValueMeter.
MeterWindow == 3

\* Bound: the most add calls between two resets.
MaxAdds == 5

\* Bound: the added values are the integers of magnitude up to this.
MaxMeterValue == 1

MeterValues == (0 - MaxMeterValue) .. MaxMeterValue

WindowIndexes == 0 .. MeterWindow - 1

\* A quotient of two doubles that hold integers, kept exact.
Quotient(a, b) == [num |-> a, den |-> b]

\* The names the application resolves: the entry points whose wrappers run
\* hooks, an instance-level function the interposer wraps and a function
\* it does not wrap.
ProcNames ==
    {"vkDeviceWaitIdle", "vkCreateSwapchainKHR", "vkDestroySwapchainKHR",
     "vkGetSwapchainImagesKHR", "vkAcquireNextImageKHR",
     "vkAcquireNextImage2KHR", "vkQueuePresentKHR",
     "vkCreateWin32SurfaceKHR", "vkDestroySurfaceKHR",
     "vkCreateInstance", "vkGetPhysicalDeviceProperties"}

\* The names the application resolves through vkGetDeviceProcAddr.
DeviceProcNames ==
    {"vkQueuePresentKHR", "vkCreateWin32SurfaceKHR", "vkCreateInstance"}

\* HMODULE s_module = {}; the application holds no pointer yet.
ProcInit ==
    /\ s_module = FALSE
    /\ instanceProcs = [p \in ProcNames |-> "nullptr"]
    /\ deviceProcs = [p \in DeviceProcNames |-> "nullptr"]

\* The member initializers: val{0}, mean{0}, n{0}, sum{}; the constructor
\* leaves the elements of window unwritten.
MeterInit ==
    /\ meter = [n |-> 0, val |-> 0, sum |-> 0, mean |-> Quotient(0, 1),
                window |-> [i \in WindowIndexes |-> 0]]
    /\ windowWritten = {}
    /\ added = <<>>

Init ==
    /\ ProcInit
    /\ MeterInit
    /\ cameraData = [s \in 0 .. MAX_FRAMES_IN_FLIGHT - 1 |->
                        [first |-> 0, second |-> DefaultT]]
    /\ lastFrame = 0
    /\ pc = [t \in Threads |-> "idle"]
    /\ frameID = [t \in Threads |-> 0]
    /\ result = [t \in Threads |-> nullopt]
    /\ timedWaits = [t \in Threads |-> 0]
    /\ history = << >>
    /\ insertLog = "none"
    /\ timer = [t \in Threads |-> "off"]
    /\ ReflexInit
    /\ HookInit
    /\ TagInit

(***************************************************************************)
(* insertCameraData                                                        *)
(***************************************************************************)

\* Mutant: frame 0 is let through.
IsFirstFrame_Mut(f) == f < 0

\* if (frameID <= 0) return;
IsFirstFrame(f) == f <= 0

\* Mutant: the duplicate test is gone, every write is applied.
AlreadySet_MutNever(f) == FALSE

\* Mutant: a slot that holds any frame is taken to hold this one, so a
\* written slot is never overwritten.
AlreadySet_MutOccupied(f) == cameraData[Slot(f)].first # 0

\* if (frameID == availableCameraData.first) return;
AlreadySet(f) == f = cameraData[Slot(f)].first

\* getFrameCV.notify_one(): one of the threads blocked on the condition
\* variable, if there is one, is woken.
notify_one ==
    IF \E t \in Threads : pc[t] = "waiting"
    THEN \E t \in Threads :
            /\ pc[t] = "waiting"
            /\ pc' = [pc EXCEPT ![t] = "notified"]
    ELSE pc' = pc

\* Mutant: a duplicate write replaces the stored value without a notify.
insertCameraData_MutOverwrite(f, v) ==
    IF IsFirstFrame(f)
    THEN UNCHANGED <<cameraData, lastFrame, pc>>
    ELSE IF AlreadySet(f)
    THEN /\ cameraData' = [cameraData EXCEPT ![Slot(f)] =
                              [first |-> f, second |-> v]]
         /\ UNCHANGED <<lastFrame, pc>>
    ELSE /\ cameraData' = [cameraData EXCEPT ![Slot(f)] =
                              [first |-> f, second |-> v]]
         /\ lastFrame' = f
         /\ notify_one

\* Mutant: lastFrame only ever grows.
insertCameraData_MutHighest(f, v) ==
    IF IsFirstFrame(f) \/ AlreadySet(f)
    THEN UNCHANGED <<cameraData, lastFrame, pc>>
    ELSE /\ cameraData' = [cameraData EXCEPT ![Slot(f)] =
                              [first |-> f, second |-> v]]
         /\ lastFrame' = IF f > lastFrame THEN f ELSE lastFrame
         /\ notify_one

insertCameraData(f, v) ==
    IF IsFirstFrame(f) \/ AlreadySet(f)
    THEN UNCHANGED <<cameraData, lastFrame, pc>>
    ELSE /\ cameraData' = [cameraData EXCEPT ![Slot(f)] =
                              [first |-> f, second |-> v]]
         /\ lastFrame' = f
         /\ notify_one

\* Mutant: the out-of-order test compares with lastFrame itself.
insertWarning_Mut(f) ==
    IF IsFirstFrame(f) THEN "none"
    ELSE IF AlreadySet(f) THEN "already set"
    ELSE IF lastFrame # f THEN "out of order"
    ELSE "none"

\* The SL_LOG_WARN of insertCameraData(f, .), lines 83-96.
insertWarning(f) ==
    IF IsFirstFrame(f) THEN "none"
    ELSE IF AlreadySet(f) THEN "already set"
    ELSE IF lastFrame + 1 # f THEN "out of order"
    ELSE "none"

\* The producer's call, recorded in the history.
Insert ==
    \E f \in Frames, v \in Values :
        /\ Len(history) < MaxWrites
        /\ insertCameraData(f, v)
        /\ insertLog' = insertWarning(f)
        /\ history' = Append(history, [frame |-> f, value |-> v])
        /\ UNCHANGED <<reflexVars, hookVars, tagVars, procVars, meterVars, frameID, result, timedWaits, timer>>

\* The producer's call, not recorded: the producer may go on for ever.  The
\* payload plays no part in the waiting protocol, so one value stands for it.
InsertFree ==
    \E f \in Frames :
        /\ insertCameraData(f, "v1")
        /\ UNCHANGED <<reflexVars, hookVars, tagVars, procVars, meterVars, frameID, result, timedWaits, history, insertLog, timer>>

(***************************************************************************)
(* getCameraData                                                           *)
(***************************************************************************)

\* Mutant: any written slot matches, whatever frame it holds.
FrameAvailable_MutAnyFrame(f) == cameraData[Slot(f)].first # 0

\* frameID == cameraData.at(frameID % MAX_FRAMES_IN_FLIGHT).first
FrameAvailable(f) == f = cameraData[Slot(f)].first

\* Mutant: a successful lookup takes the entry out of its slot.
Look_MutConsume(t, f) ==
    IF FrameAvailable(f)
    THEN /\ pc' = [pc EXCEPT ![t] = "done"]
         /\ result' = [result EXCEPT ![t] = cameraData[Slot(f)].second]
         /\ cameraData' = [cameraData EXCEPT ![Slot(f)] =
                              [first |-> 0, second |-> DefaultT]]
         /\ UNCHANGED lastFrame
    ELSE /\ pc' = [pc EXCEPT ![t] = "wait"]
         /\ result' = [result EXCEPT ![t] = nullopt]
         /\ UNCHANGED <<cameraData, lastFrame>>

\* Lines 107-115 for thread t looking for frame f: return the slot's value
\* or leave the critical section and go on to the wait.  The slot is only
\* read.
Look(t, f) ==
    /\ IF FrameAvailable(f)
       THEN /\ pc' = [pc EXCEPT ![t] = "done"]
            /\ result' = [result EXCEPT ![t] = cameraData[Slot(f)].second]
       ELSE /\ pc' = [pc EXCEPT ![t] = "wait"]
            /\ result' = [result EXCEPT ![t] = nullopt]
    /\ UNCHANGED <<cameraData, lastFrame>>

\* Entry of getCameraData(f) and the first pass through the lookup.
getCameraData(t, f) ==
    /\ pc[t] = "idle"
    /\ frameID' = [frameID EXCEPT ![t] = f]
    /\ timedWaits' = [timedWaits EXCEPT ![t] = 0]
    /\ Look(t, f)
    /\ UNCHANGED <<reflexVars, hookVars, tagVars, procVars, meterVars, history, insertLog, timer>>

\* A later pass of the while (true) loop through the lookup.
LookForFrame(t) ==
    /\ pc[t] = "look"
    /\ Look(t, frameID[t])
    /\ UNCHANGED <<reflexVars, hookVars, tagVars, procVars, meterVars, frameID, timedWaits, history,
                   insertLog, timer>>

\* Lines 120-125: take the lock and enter wait_for.  wait_for tests the
\* predicate first and returns true without waiting when it holds;
\* otherwise the thread releases the mutex and blocks.
\* A zero timeout has expired as soon as the wait starts.
WaitFor(t) ==
    /\ pc[t] = "wait"
    /\ IF FrameAvailable(frameID[t])
       THEN /\ pc' = [pc EXCEPT ![t] = "look"]
            /\ UNCHANGED <<timedWaits, timer>>
       ELSE /\ pc' = [pc EXCEPT ![t] = "waiting"]
            /\ timedWaits' = [timedWaits EXCEPT
                                 ![t] = Min(timedWaits[t] + 1, MaxWaits)]
            /\ timer' = [timer EXCEPT ![t] =
                            IF TimeoutFor(frameID[t]) = 0
                            THEN "expired" ELSE "running"]
    /\ UNCHANGED <<reflexVars, hookVars, tagVars, procVars, meterVars, cameraData, lastFrame, frameID, result, history, insertLog>>

\* The timeout of the wait passes (the thread has not yet noticed).
TimerFires(t) ==
    /\ timer[t] = "running"
    /\ timer' = [timer EXCEPT ![t] = "expired"]
    /\ UNCHANGED <<reflexVars, hookVars, tagVars, procVars, meterVars, cameraData, lastFrame, pc, frameID, result, timedWaits,
                   history, insertLog>>

\* Woken by notify_one: re-take the mutex and test the predicate; wait_for
\* returns true when it holds and goes back to sleep otherwise.
Notified(t) ==
    /\ pc[t] = "notified"
    /\ pc' = [pc EXCEPT ![t] =
                 IF FrameAvailable(frameID[t]) THEN "look" ELSE "waiting"]
    /\ timer' = [timer EXCEPT ![t] =
                    IF FrameAvailable(frameID[t]) THEN "off" ELSE timer[t]]
    /\ UNCHANGED <<reflexVars, hookVars, tagVars, procVars, meterVars, cameraData, lastFrame, frameID, result, timedWaits, history,
                   insertLog>>

\* A wakeup no notify caused (the condition variable allows it): same test.
SpuriousWakeup(t) ==
    /\ pc[t] = "waiting"
    /\ pc' = [pc EXCEPT ![t] =
                 IF FrameAvailable(frameID[t]) THEN "look" ELSE "waiting"]
    /\ timer' = [timer EXCEPT ![t] =
                    IF FrameAvailable(frameID[t]) THEN "off" ELSE timer[t]]
    /\ UNCHANGED <<reflexVars, hookVars, tagVars, procVars, meterVars, cameraData, lastFrame, frameID, result, timedWaits, history,
                   insertLog>>

\* The wait's timeout expires: wait_for returns the predicate's value, and
\* lines 126-132 return std::nullopt when it is false.
TimeOut(t) ==
    /\ pc[t] = "waiting"
    /\ timer[t] = "expired"
    /\ timer' = [timer EXCEPT ![t] = "off"]
    /\ IF FrameAvailable(frameID[t])
       THEN /\ pc' = [pc EXCEPT ![t] = "look"]
            /\ UNCHANGED result
       ELSE /\ pc' = [pc EXCEPT ![t] = "done"]
            /\ result' = [result EXCEPT ![t] = nullopt]
    /\ UNCHANGED <<reflexVars, hookVars, tagVars, procVars, meterVars, cameraData, lastFrame, frameID, timedWaits, history,
                   insertLog>>

\* The call has returned and the caller has its result: the thread is free
\* to call again.
Return(t) ==
    /\ pc[t] = "done"
    /\ pc' = [pc EXCEPT ![t] = "idle"]
    /\ frameID' = [frameID EXCEPT ![t] = 0]
    /\ result' = [result EXCEPT ![t] = nullopt]
    /\ timedWaits' = [timedWaits EXCEPT ![t] = 0]
    /\ UNCHANGED <<reflexVars, hookVars, tagVars, procVars, meterVars, cameraData, lastFrame, history, insertLog, timer>>

ThreadStep(t) ==
    \/ LookForFrame(t)
    \/ WaitFor(t)
    \/ TimerFires(t)
    \/ Notified(t)
    \/ SpuriousWakeup(t)
    \/ TimeOut(t)
    \/ Return(t)

(***************************************************************************)
(* Specifications                                                          *)
(***************************************************************************)

\* One consumer, the producer's calls recorded.
Next ==
    \/ Insert
    \/ \E f \in Frames : getCameraData("t1", f)
    \/ ThreadStep("t1")

Spec == Init /\ [][Next]_vars

\* Several consumers on the same channel.
NextConc ==
    \/ InsertFree
    \/ \E t \in Threads, f \in Frames : getCameraData(t, f)
    \/ \E t \in Threads : ThreadStep(t)

ConcSpec == Init /\ [][NextConc]_vars

\* One consumer whose steps are eventually taken: the mutex is granted (weak
\* fairness of the steps that take it) and the timer of a wait fires.  The
\* deadline of a wait_for is absolute, so a notify that finds the predicate
\* false does not put it off: the timeout is taken if the thread is blocked
\* again and again (strong fairness).  The producer is free.
NextFair ==
    \/ InsertFree
    \/ \E f \in Frames : getCameraData("t1", f)
    \/ ThreadStep("t1")

FairSpec ==
    /\ Init
    /\ [][NextFair]_vars
    /\ WF_vars(LookForFrame("t1"))
    /\ WF_vars(WaitFor("t1"))
    /\ WF_vars(Notified("t1"))
    /\ WF_vars(TimerFires("t1"))
    /\ SF_vars(TimeOut("t1"))

(***************************************************************************)
(* The producer's history, read back                                       *)
(***************************************************************************)

Aliases(f, g) == Slot(f) = Slot(g)

MaxOf(S) == CHOOSE x \in S : \A y \in S : y <= x

MinOf(S) == CHOOSE x \in S : \A y \in S : x <= y

\* The writes of h with a non-zero frame index, in order.
NonZero(h) == SelectSeq(h, LAMBDA w : w.frame > 0)

\* Position of the most recent write of h that maps to f's slot; 0 if none.
LastAlias(h, f) ==
    LET S == {i \in 1 .. Len(h) : Aliases(h[i].frame, f)}
    IN  IF S = {} THEN 0 ELSE MaxOf(S)

\* Start of the run of writes of frame f that ends at position j of h: no
\* write between the start and j is to another frame of f's slot.
RunStart(h, f, j) ==
    MinOf({i \in 1 .. j :
              /\ h[i].frame = f
              /\ \A k \in i .. j : Aliases(h[k].frame, f) => h[k].frame = f})

\* What the claim under C2 expects read(f) to return after history h.
MostRecentWrite(h, f) ==
    LET j == LastAlias(h, f)
    IN  IF j > 0 /\ h[j].frame = f THEN h[j].value ELSE nullopt

\* What read(f) returns after history h, frame-0 writes and repeated writes
\* being dropped.
FirstOfLastRun(h, f) ==
    LET e == NonZero(h)
        j == LastAlias(e, f)
    IN  IF j = 0 THEN (IF f = 0 THEN DefaultT ELSE nullopt)
        ELSE IF e[j].frame = f THEN e[RunStart(e, f, j)].value
        ELSE nullopt

\* insert(f1, .) was followed by insert(f2, .) for another frame f2 of the
\* same slot with f2 >= least, and f1 has not been inserted since.
SupersededFrom(h, f1, least) ==
    \E i, j \in 1 .. Len(h) :
        /\ i < j
        /\ h[i].frame = f1
        /\ h[j].frame # f1
        /\ h[j].frame >= least
        /\ Aliases(h[j].frame, f1)
        /\ \A k \in (j + 1) .. Len(h) : h[k].frame # f1

\* The step is thread t's getCameraData call returning.
Returns(t) == pc[t] # "done" /\ pc'[t] = "done"

\* The step is thread t entering getCameraData.
Calls(t) == pc[t] = "idle" /\ pc'[t] # "idle"

\* The step is an insertCameraData call, recorded as the last of history'.
Inserts == Len(history') = Len(history) + 1

LastWrite(h) == h[Len(h)]

\* The step is an insertCameraData call that wrote its slot.
Applied == cameraData' # cameraData

(***************************************************************************)
(* Claims                                                                  *)
(***************************************************************************)

\* C1: a getCameraData(f) call that returns a value returns a value that
\* was passed to some insertCameraData(f, .) call.
C1_ReturnsOnlyInserted ==
    \A t \in Threads :
        (pc[t] = "done" /\ result[t] # nullopt) =>
            \E i \in 1 .. Len(history) :
                history[i] = [frame |-> frameID[t], value |-> result[t]]

\* C2, as claimed, for reads of a non-zero frame (a read of frame 0 already
\* fails under C1): read(f) returns v if and only if the most recent write
\* congruent to f modulo N is the write (f, v), and empty otherwise.
C2_MostRecentCongruentWrite ==
    [][\A t \in Threads :
          (Returns(t) /\ frameID'[t] > 0) =>
              result'[t] = MostRecentWrite(history, frameID'[t])]_vars

\* C2, amended: among the writes with a non-zero index, the most recent one
\* congruent to f must be a write of f, and the value read is that of the
\* first write of the unbroken run of writes of f it ends; every other read
\* is empty, but for a read of frame 0 from a slot no write has reached,
\* which yields the value-initialized T.
C2_FirstWriteOfLastRun ==
    [][\A t \in Threads :
          Returns(t) =>
              result'[t] = FirstOfLastRun(history, frameID'[t])]_vars

\* C2 witness: frame f was written over another non-zero frame of its slot
\* and a read of f returned the value written.
C2_Witness ==
    /\ pc["t1"] = "done"
    /\ Len(history) = 2
    /\ history[2].frame = frameID["t1"]
    /\ history[1].frame # frameID["t1"]
    /\ history[1].frame > 0
    /\ Aliases(history[1].frame, frameID["t1"])
    /\ history[1].value # history[2].value
    /\ result["t1"] = history[2].value

\* C3, as claimed: once insert(f1, v1) was followed by insert(f2, v2),
\* f1 # f2 of the same slot, a later get(f1) returns empty.
C3_SupersededReadsEmpty ==
    [][\A t \in Threads :
          (Calls(t) /\ SupersededFrom(history, frameID'[t], 0)) =>
              ~(pc'[t] = "done" /\ result'[t] # nullopt)]_vars

\* C3, amended: the same for f2 > 0 (a write of frame 0 is never stored and
\* supersedes nothing).
C3_SupersededByNonZeroReadsEmpty ==
    [][\A t \in Threads :
          (Returns(t) /\ SupersededFrom(history, frameID'[t], 1)) =>
              result'[t] = nullopt]_vars

\* C3 witness: get(f1) came back empty after f1's slot was taken over.
C3_Witness ==
    /\ pc["t1"] = "done"
    /\ result["t1"] = nullopt
    /\ frameID["t1"] > 0
    /\ SupersededFrom(history, frameID["t1"], 1)
    /\ cameraData[Slot(frameID["t1"])].first > frameID["t1"]

\* The threads blocked on the condition variable in a wait with a non-zero
\* timeout.
Blocked == {t \in Threads : pc[t] = "waiting" /\ TimeoutFor(frameID[t]) > 0}

\* C4: an insert(f, v) that is applied while calls are blocked on the
\* condition variable wakes every one of them that waits for f.
C4_InsertWakesEveryWaiter ==
    [][(Applied /\ \A t \in Threads : pc[t] = "waiting" => t \in Blocked) =>
          \A t \in Blocked : frameID[t] = lastFrame' => pc'[t] = "notified"]_vars

\* C5: one getCameraData call with a non-zero timeout starts at most one
\* timed wait.
C5_AtMostOneTimedWait ==
    \A t \in Threads : TimeoutFor(frameID[t]) > 0 => timedWaits[t] <= 1

\* C6: every getCameraData call eventually returns.
C6_EveryCallReturns ==
    \A t \in Threads :
        (pc[t] \in {"wait", "look", "waiting", "notified"}) ~> (pc[t] = "done")

\* C7, as claimed: after insert(f, v1) then insert(f, v2), f > 0, with no
\* write to f's slot in between, a subsequent get(f) returns v2.
C7_LastWriteWins ==
    [][\A t \in Threads :
          LET f == frameID'[t]
              j == LastAlias(history, f)
          IN  (/\ Calls(t)
               /\ f > 0
               /\ j > 0
               /\ history[j].frame = f
               /\ RunStart(history, f, j) < j) =>
                  (pc'[t] = "done" /\ result'[t] = history[j].value)]_vars

\* C7, amended: the first write wins.  When insert(f, v1), f > 0, is the
\* first insert of f since another non-zero frame was written to f's slot
\* (or since construction) and insert(f, v2) follows with no write of
\* another non-zero frame to the slot in between, get(f) returns v1.
C7_FirstWriteWins ==
    [][\A t \in Threads :
          LET f == frameID'[t]
              e == NonZero(history)
              j == LastAlias(e, f)
          IN  (/\ Returns(t)
               /\ f > 0
               /\ j > 0
               /\ e[j].frame = f
               /\ RunStart(e, f, j) < j) =>
                  result'[t] = e[RunStart(e, f, j)].value]_vars

\* C7 witness: frame f was written twice in a row with different values
\* and get(f) returned the first.
C7_Witness ==
    /\ pc["t1"] = "done"
    /\ frameID["t1"] > 0
    /\ Len(history) = 2
    /\ history[1].frame = frameID["t1"]
    /\ history[2].frame = frameID["t1"]
    /\ history[1].value # history[2].value
    /\ result["t1"] = history[1].value

\* C8: an insert of the frame its slot already holds changes neither the
\* slots nor lastFrame and notifies nobody.
C8_DuplicateInsertIsNoOp ==
    [][(/\ Inserts
        /\ cameraData[Slot(LastWrite(history').frame)].first
               = LastWrite(history').frame) =>
           UNCHANGED <<cameraData, lastFrame, pc>>]_vars

\* C8 witness: frame f > 0 was inserted twice in a row with different
\* values while a consumer was blocked, and the first value is still stored.
C8_Witness ==
    /\ Len(history) >= 2
    /\ LastWrite(history).frame > 0
    /\ history[Len(history) - 1].frame = LastWrite(history).frame
    /\ history[Len(history) - 1].value # LastWrite(history).value
    /\ cameraData[Slot(LastWrite(history).frame)] =
           [first |-> LastWrite(history).frame,
            second |-> history[Len(history) - 1].value]
    /\ pc["t1"] = "waiting"

\* C9: insert(0, v) changes neither the slots nor lastFrame and notifies
\* nobody.
C9_FrameZeroNeverStored ==
    [][(Inserts /\ LastWrite(history').frame = 0) =>
           UNCHANGED <<cameraData, lastFrame, pc>>]_vars

\* C9 witness: frame 0 was inserted while slot 0 held another frame and a
\* consumer was blocked; the slot still holds that frame.
C9_Witness ==
    /\ Len(history) >= 2
    /\ LastWrite(history).frame = 0
    /\ cameraData[0].first # 0
    /\ lastFrame # 0
    /\ pc["t1"] = "waiting"

\* C10: a read of a frame whose slot no applied insert has written returns
\* empty, frame 0 included.
C10_UnwrittenSlotReadsEmpty ==
    [][\A t \in Threads :
          (Returns(t) /\ LastAlias(NonZero(history), frameID'[t]) = 0) =>
              result'[t] = nullopt]_vars

\* C11 (as stated): a slot's stored frame index f # 0 only ever changes
\* to f + N.
C11_OverwrittenOnlyByNextAlias ==
    [][\A s \in DOMAIN cameraData :
          (/\ cameraData[s].first # 0
           /\ cameraData'[s].first # cameraData[s].first) =>
              cameraData'[s].first
                  = cameraData[s].first + MAX_FRAMES_IN_FLIGHT]_vars

\* C11 (amended): a slot's stored frame index f # 0 changes only in an
\* insert call, to the frame g of that call, where g > 0, g # f and g maps
\* to the same slot (g = f + k*N for some integer k # 0, stale frames and
\* frames further ahead included); no other slot changes and lastFrame
\* becomes g.
C11_OverwrittenByAnyOtherAlias ==
    [][\A s \in DOMAIN cameraData :
          (/\ cameraData[s].first # 0
           /\ cameraData'[s].first # cameraData[s].first) =>
              /\ Inserts
              /\ cameraData'[s].first = LastWrite(history').frame
              /\ cameraData'[s].first > 0
              /\ cameraData'[s].first % MAX_FRAMES_IN_FLIGHT = s
              /\ (cameraData'[s].first - cameraData[s].first)
                     % MAX_FRAMES_IN_FLIGHT = 0
              /\ lastFrame' = cameraData'[s].first
              /\ \A s2 \in DOMAIN cameraData :
                     s2 # s => cameraData'[s2] = cameraData[s2]]_vars

\* C11 witness: a stale frame g < f replaced the stored frame f of its slot.
C11_Witness ==
    /\ Len(history) = 2
    /\ history[2].frame > 0
    /\ history[1].frame > history[2].frame
    /\ Aliases(history[1].frame, history[2].frame)
    /\ cameraData[history[2].frame % MAX_FRAMES_IN_FLIGHT].first
           = history[2].frame
    /\ lastFrame = history[2].frame

\* C12: an insert(f, v) with f > 0 whose slot does not hold f is applied:
\* slot f mod N becomes (f, v), the other slots are unchanged, lastFrame
\* becomes f and exactly one waiting thread (if any) is notified; the
\* out-of-order warning is logged exactly when f # lastFrame + 1.
C12_NonDuplicateInsertApplied ==
    [][(/\ Inserts
        /\ LastWrite(history').frame > 0
        /\ cameraData[LastWrite(history').frame
                         % MAX_FRAMES_IN_FLIGHT].first
               # LastWrite(history').frame) =>
           LET f == LastWrite(history').frame
               v == LastWrite(history').value
               waiters == {t \in Threads : pc[t] = "waiting"}
           IN  /\ cameraData'[f % MAX_FRAMES_IN_FLIGHT]
                      = [first |-> f, second |-> v]
               /\ \A s \in DOMAIN cameraData :
                      s # f % MAX_FRAMES_IN_FLIGHT
                          => cameraData'[s] = cameraData[s]
               /\ lastFrame' = f
               /\ IF waiters = {}
                  THEN pc' = pc
                  ELSE \E t \in waiters :
                          pc' = [pc EXCEPT ![t] = "notified"]
               /\ (insertLog' = "out of order") <=> (f # lastFrame + 1)
               /\ insertLog' \in {"none", "out of order"}]_vars

\* C12 witness: an out-of-order insert was applied and notified the waiter.
C12_Witness ==
    /\ Len(history) >= 1
    /\ insertLog = "out of order"
    /\ pc["t1"] = "notified"
    /\ lastFrame = LastWrite(history).frame
    /\ cameraData[Slot(lastFrame)] =
           [first |-> lastFrame, second |-> LastWrite(history).value]

MaxReflexFrame == 3

ReflexFrames == 0 .. MaxReflexFrame

\* ReflexCameraData values the application can pass.
CameraValues ==
    {[worldToViewMatrix |-> [id |-> "W1"], viewToClipMatrix |-> [id |-> "P1"]],
     [worldToViewMatrix |-> [id |-> "W2"], viewToClipMatrix |-> [id |-> "P2"]]}

\* The channel's duplicate test on a channel value.
ChannelHolds(ch, f) == f = ch.cameraData[Slot(f)].first

\* insertCameraData(f, v) on a channel value.
ChannelInsert(ch, f, v) ==
    IF IsFirstFrame(f) \/ ChannelHolds(ch, f)
    THEN ch
    ELSE [cameraData |-> [ch.cameraData EXCEPT
                             ![Slot(f)] = [first |-> f, second |-> v]],
          lastFrame |-> f]

\* getCameraData(f) on a channel nobody inserts into during the call: the
\* lookup's result, or nullopt once the wait has timed out.
ChannelGet(ch, f) ==
    IF ChannelHolds(ch, f)
    THEN Optional(ch.cameraData[Slot(f)].second)
    ELSE NullOpt

\* The extrapolation, kept as the pair of matrices it reads; the
\* view-to-clip matrix is passed through, prevViewToClip is not read.
predictCameraData(inCameraData, prevWorldToView, prevViewToClip) ==
    [predictedWorldToViewMatrix |->
         [current |-> inCameraData.worldToViewMatrix,
          prev |-> prevWorldToView],
     predictedViewToClipMatrix |-> inCameraData.viewToClipMatrix]

\* Mutant: a prediction is stored whether or not one was ever asked for.
Predicts_Mut(frame) == frame > 0

\* if (ctx.predictCamera && frame > 0)
Predicts(frame) == predictCamera /\ frame > 0

slReflexSetCameraData(frame, inCameraData) ==
    /\ setCalls < MaxWrites
    /\ setCalls' = setCalls + 1
    /\ predCameraData' =
           IF Predicts(frame)
           THEN ChannelInsert(predCameraData, frame,
                    predictCameraData(inCameraData, prevWorldToViewMatrix,
                                      prevViewToClipMatrix))
           ELSE predCameraData
    /\ simCameraData' = ChannelInsert(simCameraData, frame, inCameraData)
    /\ prevWorldToViewMatrix' = inCameraData.worldToViewMatrix
    /\ prevViewToClipMatrix' = inCameraData.viewToClipMatrix
    /\ apiResult' = "eOk"
    /\ lastCall' = [op |-> "slReflexSetCameraData", frame |-> frame]
    /\ lastStored' = IF ChannelInsert(simCameraData, frame, inCameraData)
                          # simCameraData
                      THEN inCameraData ELSE lastStored
    /\ UNCHANGED <<predictCamera, outCameraData, camVars, hookVars, tagVars, procVars, meterVars>>

\* Mutant: an empty answer is reported as success with a default value.
GetterOutcome_Mut(cameraData_, out) ==
    IF ~cameraData_.has_value
    THEN [result |-> "eOk", out |-> DefaultCameraData]
    ELSE [result |-> "eOk", out |-> cameraData_.value]

\* What a getter does with the channel's answer: the result it returns and
\* the content of the caller's structure afterwards.
GetterOutcome(cameraData_, out) ==
    IF ~cameraData_.has_value
    THEN [result |-> "eErrorInvalidState", out |-> out]
    ELSE [result |-> "eOk", out |-> cameraData_.value]

slReflexGetCameraDataInternal(frame) ==
    LET o == GetterOutcome(ChannelGet(simCameraData, frame), outCameraData)
    IN  /\ outCameraData' = o.out
        /\ apiResult' = o.result
        /\ lastCall' = [op |-> "slReflexGetCameraDataInternal",
                        frame |-> frame]
        /\ UNCHANGED <<simCameraData, predCameraData, predictCamera,
                       prevWorldToViewMatrix, prevViewToClipMatrix,
                       setCalls, lastStored, camVars, hookVars, tagVars, procVars, meterVars>>

slReflexGetPredictedCameraData(frame) ==
    LET o == GetterOutcome(ChannelGet(predCameraData, frame), outCameraData)
    IN  /\ predictCamera' = TRUE
        /\ outCameraData' = o.out
        /\ apiResult' = o.result
        /\ lastCall' = [op |-> "slReflexGetPredictedCameraData",
                        frame |-> frame]
        /\ UNCHANGED <<simCameraData, predCameraData,
                       prevWorldToViewMatrix, prevViewToClipMatrix,
                       setCalls, lastStored, camVars, hookVars, tagVars, procVars, meterVars>>

ReflexNext ==
    \/ \E f \in ReflexFrames, c \in CameraValues : slReflexSetCameraData(f, c)
    \/ \E f \in ReflexFrames : slReflexGetCameraDataInternal(f)
    \/ \E f \in ReflexFrames : slReflexGetPredictedCameraData(f)

ReflexSpec == Init /\ [][ReflexNext]_vars

\* C14: a getter whose channel returns empty for the frame returns
\* eErrorInvalidState and leaves the caller's structure as it was; a getter
\* whose channel returns a value copies it out and returns eOk.
C14_GetterReportsMissingData ==
    [][/\ lastCall'.op = "slReflexGetCameraDataInternal" =>
            IF simCameraData.cameraData[
                   lastCall'.frame % MAX_FRAMES_IN_FLIGHT].first
                       # lastCall'.frame
            THEN /\ apiResult' = "eErrorInvalidState"
                 /\ outCameraData' = outCameraData
            ELSE /\ apiResult' = "eOk"
                 /\ outCameraData' = simCameraData.cameraData[
                        lastCall'.frame % MAX_FRAMES_IN_FLIGHT].second
       /\ lastCall'.op = "slReflexGetPredictedCameraData" =>
            IF predCameraData.cameraData[
                   lastCall'.frame % MAX_FRAMES_IN_FLIGHT].first
                       # lastCall'.frame
            THEN /\ apiResult' = "eErrorInvalidState"
                 /\ outCameraData' = outCameraData
            ELSE /\ apiResult' = "eOk"
                 /\ outCameraData' = predCameraData.cameraData[
                        lastCall'.frame % MAX_FRAMES_IN_FLIGHT].second]_vars

\* C14 witness: a getter failed for a frame its channel does not hold and
\* the caller's structure still holds what an earlier getter copied out.
C14_Witness ==
    /\ lastCall.op = "slReflexGetCameraDataInternal"
    /\ ~ChannelHolds(simCameraData, lastCall.frame)
    /\ apiResult = "eErrorInvalidState"
    /\ outCameraData \in CameraValues

\* C15: whenever a predicted value is inserted for frame f, the sim channel
\* holds f and the value is the prediction from the data stored there for f
\* and the data stored in the sim channel last before this call (the zero
\* matrix when nothing was stored).
C15_PredictedFromStoredData ==
    [][predCameraData' # predCameraData =>
          LET f == predCameraData'.lastFrame
              s == f % MAX_FRAMES_IN_FLIGHT
              prevStored == IF lastStored = [none |-> TRUE]
                            THEN DefaultCameraData ELSE lastStored
          IN  /\ simCameraData'.cameraData[s].first = f
              /\ predCameraData'.cameraData[s].second =
                     predictCameraData(simCameraData'.cameraData[s].second,
                                       prevStored.worldToViewMatrix,
                                       prevStored.viewToClipMatrix)]_vars

(***************************************************************************)
(* Hook dispatch of the Vulkan interposer: one wrapper call per caller,   *)
(* every hook call and the native call being a step of its own.           *)
(***************************************************************************)

\* Bound: the longest hook list the plugin manager returns for one phase.
MaxHooks == 2

\* The wrappers that run before-hooks, the native call and after-hooks.
FullEntryPoints ==
    {"vkCreateSwapchainKHR", "vkQueuePresentKHR", "vkCreateWin32SurfaceKHR"}

\* The wrappers that run before-hooks and the native call only.
BeforeOnlyEntryPoints ==
    {"vkDeviceWaitIdle", "vkGetSwapchainImagesKHR", "vkAcquireNextImageKHR",
     "vkAcquireNextImage2KHR"}

\* The void wrappers: the before-hooks' return values are not looked at.
VoidEntryPoints == {"vkDestroySwapchainKHR", "vkDestroySurfaceKHR"}

EntryPoints == FullEntryPoints \cup BeforeOnlyEntryPoints \cup VoidEntryPoints

\* VkResult: success, a status that is not an error, and an error.
VkResults == {"VK_SUCCESS", "VK_SUBOPTIMAL_KHR", "VK_ERROR_DEVICE_LOST"}

\* What a before-hook does with the bool& skip it is handed.
SkipOps == {"keep", "set", "clear"}

ApplySkip(op, s) ==
    IF op = "set" THEN TRUE ELSE IF op = "clear" THEN FALSE ELSE s

\* The wrapper is entered: its locals are initialised; the hook lists are
\* those the plugin manager returns for the function id during this call.
Dispatch(c, fn, nb, na) ==
    /\ hpc[c] = "idle"
    /\ hpc' = [hpc EXCEPT ![c] = "before"]
    /\ functionID' = [functionID EXCEPT ![c] = fn]
    /\ nBefore' = [nBefore EXCEPT ![c] = nb]
    /\ nAfter' = [nAfter EXCEPT ![c] = na]
    /\ idx' = [idx EXCEPT ![c] = 0]
    /\ skip' = [skip EXCEPT ![c] = FALSE]
    /\ vkResult' = [vkResult EXCEPT ![c] = "VK_SUCCESS"]
    /\ events' = [events EXCEPT ![c] = << >>]
    /\ UNCHANGED <<camVars, reflexVars, tagVars, procVars,
                   meterVars>>

\* Mutant: a failing before-hook does not end the dispatch.
BeforeHookAborts_Mut(fn, r) == FALSE

\* Mutant: only error codes end the dispatch (result < 0).
BeforeHookAborts_MutErrorsOnly(fn, r) ==
    fn \notin VoidEntryPoints /\ r = "VK_ERROR_DEVICE_LOST"

\* The test after a before-hook: result != VK_SUCCESS returns at once,
\* except in the void wrappers, which have no such test.
BeforeHookAborts(fn, r) == fn \notin VoidEntryPoints /\ r # "VK_SUCCESS"

\* Mutant: the hook lists are walked backwards.
HookAt_Mut(n, k) == n - k

\* The range-for over a hook list of length n: after k hooks have run, the
\* next one is element k + 1 of the list.
HookAt(n, k) == k + 1

\* Mutant: skip is one flag shared by all dispatches.
WriteSkip_Mut(c, v) == [d \in Callers |-> v]

\* bool skip is a local of the wrapper call: a write through the bool& the
\* hook got reaches the flag of this dispatch only.
WriteSkip(c, v) == [skip EXCEPT ![c] = v]

\* The next before-hook of the list runs, returns r and treats skip by op.
BeforeHook(c, r, op) ==
    /\ hpc[c] = "before"
    /\ idx[c] < nBefore[c]
    /\ idx' = [idx EXCEPT ![c] = idx[c] + 1]
    /\ skip' = WriteSkip(c, ApplySkip(op, skip[c]))
    /\ vkResult' = [vkResult EXCEPT ![c] =
                       IF functionID[c] \in VoidEntryPoints
                       THEN vkResult[c] ELSE r]
    /\ events' = [events EXCEPT ![c] =
                     Append(events[c], [kind |-> "before",
                                        i |-> HookAt(nBefore[c], idx[c]),
                                        ret |-> r, skipOp |-> op])]
    /\ hpc' = [hpc EXCEPT ![c] =
                  IF BeforeHookAborts(functionID[c], r)
                  THEN "returned" ELSE "before"]
    /\ UNCHANGED <<functionID, nBefore, nAfter, camVars, reflexVars, tagVars, procVars,
                   meterVars>>

\* Mutant: the native call is made whatever the skip flag says.
CallsNative_MutAlways(c) == TRUE

\* Mutant: the test of the skip flag is inverted.
CallsNative_MutInverted(c) == skip[c]

\* if (!skip): the test that guards the native call.
CallsNative(c) == ~skip[c]

\* Mutant: the wrapper comes back to the native call.
AfterRealCall_Mut(fn) == "before"

\* Where the wrapper goes on after the native call: to its after-hook loop
\* if it has one, else to its return.
AfterRealCall(fn) == IF fn \in FullEntryPoints THEN "after" ELSE "returned"

\* The before-hooks are through: the native call is made, returning r,
\* unless skip is set; the void wrappers' native call returns nothing.
RealCall(c, r) ==
    /\ hpc[c] = "before"
    /\ idx[c] = nBefore[c]
    /\ IF CallsNative(c)
       THEN /\ functionID[c] \in VoidEntryPoints => r = "VK_SUCCESS"
            /\ vkResult' = [vkResult EXCEPT ![c] =
                               IF functionID[c] \in VoidEntryPoints
                               THEN vkResult[c] ELSE r]
            /\ events' = [events EXCEPT ![c] =
                             Append(events[c], [kind |-> "real", i |-> 0,
                                                ret |-> r, skipOp |-> "keep"])]
       ELSE /\ r = "VK_SUCCESS"
            /\ UNCHANGED <<vkResult, events>>
    /\ idx' = [idx EXCEPT ![c] = 0]
    /\ hpc' = [hpc EXCEPT ![c] = AfterRealCall(functionID[c])]
    /\ UNCHANGED <<functionID, nBefore, nAfter, skip, camVars, reflexVars, tagVars, procVars,
                   meterVars>>

\* Mutant: a failing after-hook does not end the dispatch.
AfterHookAborts_Mut(r) == FALSE

\* The test after an after-hook: result != VK_SUCCESS returns at once.
AfterHookAborts(r) == r # "VK_SUCCESS"

\* Mutant: an after-hook's value does not replace a failure of the native
\* call.
AfterHookResult_Mut(c, r) ==
    IF vkResult[c] = "VK_SUCCESS" THEN r ELSE vkResult[c]

\* result = hook(...): the after-hook's value replaces the wrapper's result.
AfterHookResult(c, r) == r

\* The next after-hook of the list runs and returns r, which is assigned
\* to the wrapper's result.
AfterHook(c, r) ==
    /\ hpc[c] = "after"
    /\ idx[c] < nAfter[c]
    /\ idx' = [idx EXCEPT ![c] = idx[c] + 1]
    /\ vkResult' = [vkResult EXCEPT ![c] = AfterHookResult(c, r)]
    /\ events' = [events EXCEPT ![c] =
                     Append(events[c], [kind |-> "after",
                                        i |-> HookAt(nAfter[c], idx[c]),
                                        ret |-> r, skipOp |-> "keep"])]
    /\ hpc' = [hpc EXCEPT ![c] =
                  IF AfterHookAborts(r) THEN "returned" ELSE "after"]
    /\ UNCHANGED <<functionID, nBefore, nAfter, skip, camVars, reflexVars, tagVars, procVars,
                   meterVars>>

\* The after-hooks are through: return result.
ReturnToApp(c) ==
    /\ hpc[c] = "after"
    /\ idx[c] = nAfter[c]
    /\ hpc' = [hpc EXCEPT ![c] = "returned"]
    /\ UNCHANGED <<functionID, nBefore, nAfter, idx, skip, vkResult, events,
                   camVars, reflexVars, tagVars, procVars,
                   meterVars>>

\* The caller has the returned value and is ready for its next call.
Finish(c) ==
    /\ hpc[c] = "returned"
    /\ hpc' = [hpc EXCEPT ![c] = "idle"]
    /\ functionID' = [functionID EXCEPT ![c] = "none"]
    /\ nBefore' = [nBefore EXCEPT ![c] = 0]
    /\ nAfter' = [nAfter EXCEPT ![c] = 0]
    /\ idx' = [idx EXCEPT ![c] = 0]
    /\ skip' = [skip EXCEPT ![c] = FALSE]
    /\ vkResult' = [vkResult EXCEPT ![c] = "VK_SUCCESS"]
    /\ events' = [events EXCEPT ![c] = << >>]
    /\ UNCHANGED <<camVars, reflexVars, tagVars, procVars,
                   meterVars>>

\* One application thread calling intercepted functions.
HookNext ==
    \/ \E fn \in EntryPoints, nb \in 0 .. MaxHooks, na \in 0 .. MaxHooks :
           Dispatch("app1", fn, nb, na)
    \/ \E r \in VkResults, op \in SkipOps : BeforeHook("app1", r, op)
    \/ \E r \in VkResults : RealCall("app1", r)
    \/ \E r \in VkResults : AfterHook("app1", r)
    \/ ReturnToApp("app1")
    \/ Finish("app1")

HookSpec == Init /\ [][HookNext]_vars

\* Two application threads inside vkQueuePresentKHR at the same time, the
\* plugin manager returning one before-hook and one after-hook to both.
HookConcNext ==
    \E c \in Callers :
        \/ Dispatch(c, "vkQueuePresentKHR", 1, 1)
        \/ \E r \in VkResults, op \in SkipOps : BeforeHook(c, r, op)
        \/ \E r \in VkResults : RealCall(c, r)
        \/ \E r \in VkResults : AfterHook(c, r)
        \/ ReturnToApp(c)
        \/ Finish(c)

HookConcSpec == Init /\ [][HookConcNext]_vars

\* ---- What one dispatch did, read off its events ----

\* VkResult values that are failure codes (negative values).
FailureCodes == {"VK_ERROR_DEVICE_LOST"}

EventsOf(c, k) == {j \in 1 .. Len(events[c]) : events[c][j].kind = k}

RealInvoked(c) == EventsOf(c, "real") # {}

\* Every hook that ran in the dispatch returned VK_SUCCESS.
AllHooksSucceeded(c) ==
    \A j \in EventsOf(c, "before") \cup EventsOf(c, "after") :
        events[c][j].ret = "VK_SUCCESS"

\* Some before-hook of the dispatch wrote true to the skip flag.
SomeHookSetSkip(c) ==
    \E j \in EventsOf(c, "before") : events[c][j].skipOp = "set"

\* C16: in a dispatch of vkCreateSwapchainKHR, vkQueuePresentKHR or
\* vkCreateWin32SurfaceKHR in which every hook succeeds and none sets skip,
\* the events are b1, ..., bm, the native call, a1, ..., an in this order,
\* the hooks of each phase in the order of their list.
C16_DispatchOrder ==
    \A c \in Callers :
        (/\ hpc[c] = "returned"
         /\ functionID[c] \in FullEntryPoints
         /\ AllHooksSucceeded(c)
         /\ ~SomeHookSetSkip(c)) =>
            /\ Len(events[c]) = nBefore[c] + 1 + nAfter[c]
            /\ \A j \in 1 .. nBefore[c] :
                   events[c][j].kind = "before" /\ events[c][j].i = j
            /\ events[c][nBefore[c] + 1].kind = "real"
            /\ \A j \in 1 .. nAfter[c] :
                   /\ events[c][nBefore[c] + 1 + j].kind = "after"
                   /\ events[c][nBefore[c] + 1 + j].i = j

\* C16 witness: a dispatch with two before-hooks and two after-hooks, all
\* succeeding, has returned after making the native call.
C16_Witness ==
    /\ hpc["app1"] = "returned"
    /\ functionID["app1"] = "vkQueuePresentKHR"
    /\ nBefore["app1"] = 2
    /\ nAfter["app1"] = 2
    /\ AllHooksSucceeded("app1")
    /\ ~SomeHookSetSkip("app1")
    /\ Len(events["app1"]) = 5

\* C17: when the k-th before-hook of a wrapper that returns a VkResult
\* reports a failure code r, the dispatch has returned r; the events of the
\* dispatch are the before-hooks 1..k-1, which succeeded, and hook k: no
\* later before-hook, native call or after-hook ran.
C17_BeforeHookFailureAborts ==
    \A c \in Callers :
        \A k \in 1 .. Len(events[c]) :
            (/\ functionID[c] \notin VoidEntryPoints
             /\ events[c][k].kind = "before"
             /\ events[c][k].ret \in FailureCodes) =>
                /\ hpc[c] = "returned"
                /\ vkResult[c] = events[c][k].ret
                /\ Len(events[c]) = k
                /\ \A j \in 1 .. k - 1 :
                       /\ events[c][j].kind = "before"
                       /\ events[c][j].i = j
                       /\ events[c][j].ret = "VK_SUCCESS"
                /\ events[c][k].i = k

\* C17 witness: the second of two before-hooks of vkDeviceWaitIdle failed
\* after the first had set skip; the dispatch returned the failure.
C17_Witness ==
    /\ hpc["app1"] = "returned"
    /\ functionID["app1"] = "vkDeviceWaitIdle"
    /\ Len(events["app1"]) = 2
    /\ events["app1"][1].skipOp = "set"
    /\ skip["app1"]
    /\ events["app1"][2].ret \in FailureCodes
    /\ vkResult["app1"] = events["app1"][2].ret

\* The dispatch is past its before-hooks, none of which failed.
BeforeHooksPassed(c) ==
    /\ hpc[c] \in {"after", "returned"}
    /\ \A j \in EventsOf(c, "before") : events[c][j].ret = "VK_SUCCESS"

\* C18: in a dispatch in which no before-hook fails, the native call is
\* made if and only if no before-hook set the skip flag, whatever later
\* before-hooks did with it; the after-hooks then run in either case.
C18_RealCallIffNoHookSetSkip ==
    \A c \in Callers :
        (functionID[c] \in FullEntryPoints /\ BeforeHooksPassed(c)) =>
            /\ RealInvoked(c) <=> ~SomeHookSetSkip(c)
            /\ (hpc[c] = "returned" /\ AllHooksSucceeded(c)) =>
                   Cardinality(EventsOf(c, "after")) = nAfter[c]

\* C19: when the native call returned a failure code r and every after-hook
\* that ran simply succeeded, the dispatch returns r.
C19_NativeFailurePassedThrough ==
    \A c \in Callers :
        \A k \in EventsOf(c, "real") :
            (/\ hpc[c] = "returned"
             /\ functionID[c] \in FullEntryPoints
             /\ events[c][k].ret \in FailureCodes
             /\ \A j \in EventsOf(c, "after") :
                    events[c][j].ret = "VK_SUCCESS") =>
                vkResult[c] = events[c][k].ret

\* C20: when the k-th after-hook reports a failure code r, the dispatch has
\* returned r, whatever the native call returned, and no later after-hook
\* ran: the failing hook is the last event of the dispatch.
C20_AfterHookFirstFailureWins ==
    \A c \in Callers :
        \A k \in EventsOf(c, "after") :
            events[c][k].ret \in FailureCodes =>
                /\ hpc[c] = "returned"
                /\ vkResult[c] = events[c][k].ret
                /\ Len(events[c]) = k
                /\ \A j \in EventsOf(c, "after") :
                       j < k => events[c][j].ret = "VK_SUCCESS"

\* C20 witness: the native call succeeded, the first of two after-hooks
\* failed and the dispatch returned that failure without running the second.
C20_Witness ==
    /\ hpc["app1"] = "returned"
    /\ functionID["app1"] = "vkCreateSwapchainKHR"
    /\ nAfter["app1"] = 2
    /\ Cardinality(EventsOf("app1", "after")) = 1
    /\ \E k \in EventsOf("app1", "real") :
           events["app1"][k].ret = "VK_SUCCESS"
    /\ vkResult["app1"] \in FailureCodes

\* The dispatch ended early: a hook of a wrapper that tests its hooks'
\* results returned something else than VK_SUCCESS.
Aborted(c) ==
    /\ functionID[c] \notin VoidEntryPoints
    /\ ~AllHooksSucceeded(c)

\* C21: every dispatch of a hook-enabled entry point that is not ended by a
\* hook's failure has run, when it returns, the after-hooks registered for
\* its function id, in order, as its last events.
C21_AfterHooksOnEveryEntryPoint ==
    \A c \in Callers :
        (hpc[c] = "returned" /\ ~Aborted(c)) =>
            /\ Cardinality(EventsOf(c, "after")) = nAfter[c]
            /\ \A j \in 1 .. nAfter[c] :
                   LET e == events[c][Len(events[c]) - nAfter[c] + j]
                   IN  e.kind = "after" /\ e.i = j

\* C22: the native call is made at most once in a dispatch.
C22_RealCallAtMostOnce ==
    \A c \in Callers : Cardinality(EventsOf(c, "real")) <= 1

\* C22 witness: the native call failed, the after-hooks ran and the
\* dispatch returned having made the native call once.
C22_Witness ==
    /\ hpc["app1"] = "returned"
    /\ functionID["app1"] = "vkQueuePresentKHR"
    /\ Cardinality(EventsOf("app1", "real")) = 1
    /\ \E k \in EventsOf("app1", "real") :
           events["app1"][k].ret \in FailureCodes
    /\ Cardinality(EventsOf("app1", "after")) = 2

\* C23: a dispatch with empty before- and after-hook lists makes the native
\* call exactly once, as its only event, and returns that call's result.
C23_NoHooksIsPassthrough ==
    \A c \in Callers :
        (hpc[c] = "returned" /\ nBefore[c] = 0 /\ nAfter[c] = 0) =>
            /\ Len(events[c]) = 1
            /\ events[c][1].kind = "real"
            /\ functionID[c] \notin VoidEntryPoints =>
                   vkResult[c] = events[c][1].ret

\* C23 witness: vkDeviceWaitIdle with no hooks returned the native call's
\* failure code.
C23_Witness ==
    /\ hpc["app1"] = "returned"
    /\ functionID["app1"] = "vkDeviceWaitIdle"
    /\ nBefore["app1"] = 0
    /\ nAfter["app1"] = 0
    /\ Len(events["app1"]) = 1
    /\ vkResult["app1"] \in FailureCodes

\* The skip flag as the before-hooks of dispatch c itself left it.
OwnSkip(c) ==
    LET W == {j \in EventsOf(c, "before") : events[c][j].skipOp # "keep"}
    IN  W # {} /\ events[c][MaxOf(W)].skipOp = "set"

\* Some hook of dispatch c itself returned something else than VK_SUCCESS.
OwnFailure(c) ==
    \E j \in EventsOf(c, "before") \cup EventsOf(c, "after") :
        events[c][j].ret # "VK_SUCCESS"

\* C24: with two dispatches of vkQueuePresentKHR running concurrently, what
\* each one does is determined by its own hooks alone: its skip flag is
\* what its own before-hooks wrote, its native call is made exactly when
\* that flag is false, it ends early only on a failure of one of its own
\* hooks, and its result is the value its own last call returned.
C24_ConcurrentDispatchesIndependent ==
    \A c \in Callers :
        /\ skip[c] = OwnSkip(c)
        /\ (hpc[c] \in {"after", "returned"}
               /\ \A j \in EventsOf(c, "before") :
                      events[c][j].ret = "VK_SUCCESS") =>
                  (RealInvoked(c) <=> ~OwnSkip(c))
        /\ (hpc[c] = "returned" /\ ~OwnFailure(c)) =>
               /\ Cardinality(EventsOf(c, "before")) = nBefore[c]
               /\ Cardinality(EventsOf(c, "after")) = nAfter[c]
        /\ \A j \in 1 .. Len(events[c]) - 1 :
               events[c][j].kind = "real" \/ events[c][j].ret = "VK_SUCCESS"
        /\ vkResult[c] = IF events[c] = << >> THEN "VK_SUCCESS"
                         ELSE events[c][Len(events[c])].ret

\* C24 witness: both dispatches are in their after-hook phase at once; the
\* before-hook of one set skip and its native call was not made, the other
\* made its native call.
C24_Witness ==
    /\ hpc["app1"] = "after"
    /\ skip["app1"]
    /\ ~RealInvoked("app1")
    /\ hpc["app2"] = "after"
    /\ ~skip["app2"]
    /\ RealInvoked("app2")


\* ---------------------------------------------------------------------
\* The per-frame resource tag store: sl.common/resourceTaggingForFrame.h.
\* The header declares the store; the bodies of setTag, getTag and
\* recycleTags are taken from the specification's description of them.
\* ---------------------------------------------------------------------

\* Frame indices span this many wraps of the ring of slots.
MaxTagEpoch == 1

\* The frames tagged and read: frame 1 and the frames that share its slot,
\* and frame 2 in the slot next to it.
TagFrames == {e * TagFrameCount + 1 : e \in 0 .. MaxTagEpoch} \cup {2}

\* The application frame indices recycleTags runs for: each is one past an
\* alias of frame 1, so that frame 2 lies exactly a ring behind the next.
AppFrames == {e * TagFrameCount + 2 : e \in 0 .. MaxTagEpoch + 1}

\* A tag is keyed, within its frame, by buffer type and viewport id.
GlobalViewport == "global"

TagKeys == [type : {"kBufferTypeDepth"}, viewport : {"vp0", GlobalViewport}]

\* Tags are read for a viewport of their own; the global viewport is the
\* fallback of the lookup.
ReadKeys == {k \in TagKeys : k.viewport # GlobalViewport}

EmptyTag == [type |-> "none", viewport |-> "none"]

\* m_frames[frameIndex % m_frames.size()]
SlotOf(f) == f % TagFrameCount

\* ProtectedResourceTagContainer::getFrameIndex
getFrameIndex(s) == m_frames[s].frameIndex

\* std::shared_timed_mutex: lock_shared succeeds when nobody holds the
\* mutex exclusively.
CanLockShared_Mut(s) == TRUE

CanLockShared(s) == lockWriter[s] = NoThread

\* std::shared_timed_mutex: lock succeeds when nobody holds the mutex.
CanLockExclusive_Mut(s) == lockWriter[s] = NoThread

CanLockExclusive(s) == lockWriter[s] = NoThread /\ lockReaders[s] = {}

\* The frame lies more than a ring behind the application frame the store
\* has last recycled for.
Regressed_Mut(f) == FALSE

Regressed(f) == f + TagFrameCount < m_prevSeenAppFrameIndex

\* The slot's table belongs to a frame older than c minus the ring size.
NeedsRecycle_Mut(s, c) ==
    /\ m_frames[s].tags # {}
    /\ getFrameIndex(s) + TagFrameCount + 1 < c

NeedsRecycle(s, c) ==
    /\ m_frames[s].tags # {}
    /\ getFrameIndex(s) + TagFrameCount < c

\* What a lookup of key k in frame f finds: the tag of that viewport, else
\* the tag of the global viewport, else nothing.
LookupTag(frames, f, k) ==
    LET c == frames[SlotOf(f)]
        g == [k EXCEPT !.viewport = GlobalViewport]
    IN  IF c.frameIndex # f THEN EmptyTag
        ELSE IF k \in c.tags THEN k
        ELSE IF g \in c.tags THEN g
        ELSE EmptyTag

\* The slot that holds the frame is written as it is; a slot that holds
\* another frame is recycled first.
AfterFind_Mut(same) == IF same THEN "w_store" ELSE "w_setindex"

AfterFind(same) == IF same THEN "w_store" ELSE "w_recycle"

\* setTag takes write access to the frame's slot (findFrameForWriting): a
\* frame recycled past is refused, the slot of the same frame is written
\* as it is, another slot is recycled first.
setTag(t, f, k) ==
    /\ t = "sim"
    /\ tpc[t] = "idle"
    /\ CanLockExclusive(SlotOf(f))
    /\ lockWriter' = [lockWriter EXCEPT ![SlotOf(f)] = t]
    /\ tpc' = [tpc EXCEPT ![t] =
                  IF Regressed(f) THEN "w_reject"
                  ELSE AfterFind(getFrameIndex(SlotOf(f)) = f)]
    /\ top' = [top EXCEPT ![t] = [frame |-> f, key |-> k, slot |-> SlotOf(f)]]
    /\ tagResult' = [tagResult EXCEPT ![t] = NoResult]
    /\ UNCHANGED <<m_frames, lockReaders, m_recyclingMutex,
                   m_prevSeenAppFrameIndex, assertFailed, recycledFrames,
                   camVars, reflexVars, hookVars, procVars,
                   meterVars>>

\* setTag returns the error: the write access goes out of scope and the
\* slot's mutex is released.
RejectTag(t) ==
    /\ tpc[t] = "w_reject"
    /\ lockWriter' = [lockWriter EXCEPT ![top[t].slot] = NoThread]
    /\ tagResult' = [tagResult EXCEPT ![t] = "eErrorInvalidState"]
    /\ tpc' = [tpc EXCEPT ![t] = "idle"]
    /\ top' = [top EXCEPT ![t] = NoOperation]
    /\ UNCHANGED <<m_frames, lockReaders, m_recyclingMutex,
                   m_prevSeenAppFrameIndex, assertFailed, recycledFrames,
                   camVars, reflexVars, hookVars, procVars,
                   meterVars>>

\* What follows the clearing of a slot: the writer sets the slot's frame
\* index, the recycler releases the slot and walks on.
AfterRecycle(p) == IF p = "w_recycle" THEN "w_setindex" ELSE "c_scan"

\* The clearing of a slot is over when no tag is left in its table.
TableCleared_Mut(tags) == TRUE

TableCleared(tags) == tags = {}

\* recycleTagsForFrame, holding the slot exclusively: release the slot's
\* tags one after another until its table is empty.
recycleTagsForFrame(t) ==
    /\ tpc[t] \in {"w_recycle", "c_recycle"}
    /\ LET s == top[t].slot
       IN  \E k \in (IF m_frames[s].tags = {} THEN {EmptyTag}
                     ELSE m_frames[s].tags) :
               LET rest == m_frames[s].tags \ {k}
                   done == TableCleared(rest)
               IN  /\ m_frames' = [m_frames EXCEPT ![s].tags = rest]
                   /\ tpc' = [tpc EXCEPT ![t] =
                                 IF done THEN AfterRecycle(tpc[t]) ELSE tpc[t]]
                   /\ recycledFrames' =
                          IF done THEN recycledFrames \cup {getFrameIndex(s)}
                          ELSE recycledFrames
                   /\ IF done /\ tpc[t] = "c_recycle"
                      THEN /\ lockWriter' = [lockWriter EXCEPT ![s] = NoThread]
                           /\ top' = [top EXCEPT ![t].slot = s + 1]
                      ELSE UNCHANGED <<lockWriter, top>>
    /\ UNCHANGED <<lockReaders, m_recyclingMutex, m_prevSeenAppFrameIndex,
                   tagResult, assertFailed, camVars, reflexVars, hookVars, procVars,
                   meterVars>>

\* ProtectedResourceTagContainer::setFrameIndex: asserts that the index
\* stays or the table is empty, then assigns the index.
setFrameIndex(t) ==
    /\ tpc[t] = "w_setindex"
    /\ LET s == top[t].slot
       IN  /\ assertFailed' =
                  (assertFailed \/ ~(getFrameIndex(s) = top[t].frame
                                     \/ m_frames[s].tags = {}))
           /\ m_frames' = [m_frames EXCEPT ![s].frameIndex = top[t].frame]
    /\ tpc' = [tpc EXCEPT ![t] = "w_store"]
    /\ UNCHANGED <<lockReaders, lockWriter, m_recyclingMutex,
                   m_prevSeenAppFrameIndex, top, tagResult, recycledFrames,
                   camVars, reflexVars, hookVars, procVars,
                   meterVars>>

\* setTag stores the tag in the frame's table and returns: the write
\* access goes out of scope and the slot's mutex is released.
StoreTag(t) ==
    /\ tpc[t] = "w_store"
    /\ m_frames' = [m_frames EXCEPT ![top[t].slot].tags = @ \cup {top[t].key}]
    /\ lockWriter' = [lockWriter EXCEPT ![top[t].slot] = NoThread]
    /\ tagResult' = [tagResult EXCEPT ![t] = "eOk"]
    /\ tpc' = [tpc EXCEPT ![t] = "idle"]
    /\ top' = [top EXCEPT ![t] = NoOperation]
    /\ recycledFrames' = recycledFrames \ {top[t].frame}
    /\ UNCHANGED <<lockReaders, m_recyclingMutex, m_prevSeenAppFrameIndex,
                   assertFailed, camVars, reflexVars, hookVars, procVars,
                   meterVars>>

\* getTag takes read access to the frame's slot (findFrameForReading).
getTag(t, f, k) ==
    /\ t = "render"
    /\ tpc[t] = "idle"
    /\ CanLockShared(SlotOf(f))
    /\ lockReaders' = [lockReaders EXCEPT ![SlotOf(f)] = @ \cup {t}]
    /\ tpc' = [tpc EXCEPT ![t] = "r_lookup"]
    /\ top' = [top EXCEPT ![t] = [frame |-> f, key |-> k, slot |-> SlotOf(f)]]
    /\ tagResult' = [tagResult EXCEPT ![t] = NoResult]
    /\ UNCHANGED <<m_frames, lockWriter, m_recyclingMutex,
                   m_prevSeenAppFrameIndex, assertFailed, recycledFrames,
                   camVars, reflexVars, hookVars, procVars,
                   meterVars>>

\* getTag looks the tag up and returns: the read access goes out of scope
\* and the shared hold is released.
LookupAndRelease(t) ==
    /\ tpc[t] = "r_lookup"
    /\ tagResult' = [tagResult EXCEPT ![t] =
                        LookupTag(m_frames, top[t].frame, top[t].key)]
    /\ lockReaders' = [lockReaders EXCEPT ![top[t].slot] = @ \ {t}]
    /\ tpc' = [tpc EXCEPT ![t] = "idle"]
    /\ top' = [top EXCEPT ![t] = NoOperation]
    /\ UNCHANGED <<m_frames, lockWriter, m_recyclingMutex,
                   m_prevSeenAppFrameIndex, assertFailed, recycledFrames,
                   camVars, reflexVars, hookVars, procVars,
                   meterVars>>

\* recycleTags runs for the application's frame index c, which never goes
\* back; recycleTagsInternal takes the recycling mutex, records the index
\* and walks the slots.
recycleTags(t, c) ==
    /\ t = "present"
    /\ tpc[t] = "idle"
    /\ c >= m_prevSeenAppFrameIndex
    /\ m_recyclingMutex = NoThread
    /\ m_recyclingMutex' = t
    /\ m_prevSeenAppFrameIndex' = c
    /\ top' = [top EXCEPT ![t] = [frame |-> c, key |-> "none", slot |-> 0]]
    /\ tpc' = [tpc EXCEPT ![t] = "c_scan"]
    /\ UNCHANGED <<m_frames, lockReaders, lockWriter, tagResult,
                   assertFailed, recycledFrames,
                   camVars, reflexVars, hookVars, procVars,
                   meterVars>>

\* The slots from s on at which the walk has something to do: a slot held
\* by another thread, which it waits for, or a slot to clear.
WalkStops(s, c) ==
    {x \in TagSlots : x >= s /\ (~CanLockExclusive(x) \/ NeedsRecycle(x, c))}

\* recycleTagsInternal walks the slots in order, each examined under its
\* exclusive lock: slots that are free and not stale are passed over, a
\* stale slot is taken for clearing, a held slot makes the walk wait.
recycleTagsInternal(t) ==
    /\ tpc[t] = "c_scan"
    /\ LET stops == WalkStops(top[t].slot, top[t].frame)
       IN  IF stops = {}
           THEN /\ m_recyclingMutex' = NoThread
                /\ tpc' = [tpc EXCEPT ![t] = "idle"]
                /\ top' = [top EXCEPT ![t] = NoOperation]
                /\ UNCHANGED lockWriter
           ELSE LET s == MinOf(stops)
                IN  IF CanLockExclusive(s)
                    THEN /\ lockWriter' = [lockWriter EXCEPT ![s] = t]
                         /\ top' = [top EXCEPT ![t].slot = s]
                         /\ tpc' = [tpc EXCEPT ![t] = "c_recycle"]
                         /\ UNCHANGED m_recyclingMutex
                    ELSE /\ top[t].slot # s
                         /\ top' = [top EXCEPT ![t].slot = s]
                         /\ UNCHANGED <<lockWriter, tpc, m_recyclingMutex>>
    /\ UNCHANGED <<m_frames, lockReaders, m_prevSeenAppFrameIndex, tagResult,
                   assertFailed, recycledFrames,
                   camVars, reflexVars, hookVars, procVars,
                   meterVars>>

TagNext ==
    \E t \in TagThreads :
        \/ \E f \in TagFrames, k \in TagKeys : setTag(t, f, k)
        \/ RejectTag(t)
        \/ recycleTagsForFrame(t)
        \/ setFrameIndex(t)
        \/ StoreTag(t)
        \/ \E f \in TagFrames, k \in ReadKeys : getTag(t, f, k)
        \/ LookupAndRelease(t)
        \/ \E c \in AppFrames : recycleTags(t, c)
        \/ recycleTagsInternal(t)

TagSpec == Init /\ [][TagNext]_vars

\* C25: once the recycling of frame f has completed, no tag set under f is
\* reachable: no type and viewport is found under f in the store, and a
\* getTag for f returns empty, until a setTag stores a tag under f again.
C25_RecycledFrameUnreachable ==
    /\ [](\A f \in recycledFrames, k \in TagKeys :
              LookupTag(m_frames, f, k) = EmptyTag)
    /\ [][\A t \in TagThreads :
              (/\ tpc[t] = "r_lookup"
               /\ tpc'[t] = "idle"
               /\ top[t].frame \in recycledFrames)
              => tagResult'[t] = EmptyTag]_vars

\* A getTag holds the slot of a frame that was tagged, then recycled as
\* older than a ring behind the application frame.
C25_Witness ==
    \E t \in TagThreads :
        /\ tpc[t] = "r_lookup"
        /\ top[t].frame \in recycledFrames
        /\ top[t].frame \in TagFrames
        /\ top[t].frame + TagFrameCount < m_prevSeenAppFrameIndex

\* The threads between taking and releasing write access to slot s, and
\* those between taking and releasing read access to it.
WriteHolders(s) ==
    {t \in TagThreads :
        /\ tpc[t] \in {"w_reject", "w_recycle", "w_setindex", "w_store",
                       "c_recycle"}
        /\ top[t].slot = s}

ReadHolders(s) == {t \in TagThreads : tpc[t] = "r_lookup" /\ top[t].slot = s}

\* A recycling of slot s is under way.
Recycling(s) ==
    \E t \in TagThreads :
        tpc[t] \in {"w_recycle", "c_recycle"} /\ top[t].slot = s

\* C26: a getTag never holds a slot whose recycling is under way, so what it
\* looks up is the table before the recycling or the cleared table, and a
\* slot's table loses tags only while no reader holds the slot.
C26_NoPartiallyClearedRead ==
    /\ [](\A s \in TagSlots : ReadHolders(s) = {} \/ ~Recycling(s))
    /\ [][\A s \in TagSlots :
              m_frames'[s].tags # m_frames[s].tags
              => (ReadHolders(s) = {} /\ lockReaders[s] = {})]_vars

\* The recycling walk waits at a stale slot for a getTag that holds it.
C26_Witness ==
    \E t, u \in TagThreads :
        /\ tpc[t] = "c_scan"
        /\ NeedsRecycle(top[t].slot, top[t].frame)
        /\ u \in ReadHolders(top[t].slot)

\* C27: each slot has no thread with write access, or one and then no thread
\* with read access; a thread outside the store gets at a slot that nobody
\* holds, whatever is held on the other slots.
C27_OneWriterOrReadersPerSlot ==
    /\ \A s \in TagSlots :
           \/ WriteHolders(s) = {}
           \/ Cardinality(WriteHolders(s)) = 1 /\ ReadHolders(s) = {}
    /\ \A f \in TagFrames, k \in ReadKeys :
           (/\ WriteHolders(SlotOf(f)) = {}
            /\ ReadHolders(SlotOf(f)) = {})
           => /\ tpc["sim"] = "idle" => ENABLED setTag("sim", f, k)
              /\ tpc["render"] = "idle" => ENABLED getTag("render", f, k)

\* One slot is being written while another is being read.
C27_Witness ==
    \E s1, s2 \in TagSlots :
        /\ s1 # s2
        /\ WriteHolders(s1) # {}
        /\ ReadHolders(s2) # {}

\* C28: the assertion of setFrameIndex never fails, and a slot's frame index
\* changes only while its table is empty, which it still is after the
\* change: the old frame's tags are gone before the index changes and
\* before the new tag is stored.
C28_IndexChangesOnlyWhenEmpty ==
    /\ [](~assertFailed)
    /\ [][\A s \in TagSlots :
              m_frames'[s].frameIndex # m_frames[s].frameIndex
              => (m_frames[s].tags = {} /\ m_frames'[s].tags = {})]_vars

\* setTag is clearing the tags of another frame out of the slot it reuses.
C28_Witness ==
    \E t \in TagThreads :
        /\ tpc[t] = "w_recycle"
        /\ m_frames[top[t].slot].tags # {}
        /\ getFrameIndex(top[t].slot) \in TagFrames \ {top[t].frame}

\* C29: a setTag whose frame lies more than a ring behind the application
\* frame the store has recycled for is refused: it returns InvalidState, the
\* slot it held is as it was, and its return changes no slot's frame index
\* or table.
C29_RegressedSetTagRejected ==
    [][\A t \in TagThreads :
           /\ (/\ tpc[t] = "idle"
               /\ tpc'[t] \in {"w_reject", "w_recycle", "w_setindex", "w_store"}
               /\ top'[t].frame + TagFrameCount < m_prevSeenAppFrameIndex)
              => tpc'[t] = "w_reject"
           /\ tpc[t] = "w_reject"
              => /\ m_frames'[top[t].slot] = m_frames[top[t].slot]
                 /\ tpc'[t] # tpc[t] =>
                        /\ tpc'[t] = "idle"
                        /\ tagResult'[t] = "eErrorInvalidState"
                        /\ m_frames' = m_frames]_vars

\* A setTag for a frame recycled past is about to return its error.
C29_Witness ==
    \E t \in TagThreads :
        /\ tpc[t] = "w_reject"
        /\ top[t].frame + TagFrameCount < m_prevSeenAppFrameIndex
        /\ top[t].frame \in recycledFrames

\* C30: when recycleTags has run for application frame c, no slot holds tags
\* of a frame older than c minus the ring size, and no tag is found under
\* such a frame.
C30_NoStaleTagsAfterRecycle ==
    m_recyclingMutex = NoThread
    => /\ \A s \in TagSlots :
              m_frames[s].tags # {}
              => getFrameIndex(s) + TagFrameCount >= m_prevSeenAppFrameIndex
       /\ \A f \in TagFrames, k \in TagKeys :
              f + TagFrameCount < m_prevSeenAppFrameIndex
              => LookupTag(m_frames, f, k) = EmptyTag

\* Frame 1 was tagged and its slot, not tagged since, was cleared by a
\* recycleTags that ran for a frame more than a ring later.
C30_Witness ==
    /\ m_recyclingMutex = NoThread
    /\ 1 \in recycledFrames
    /\ getFrameIndex(SlotOf(1)) = 1
    /\ WriteHolders(SlotOf(1)) = {}
    /\ 1 + TagFrameCount < m_prevSeenAppFrameIndex

\* C31: getCameraData never modifies the channel: whether a call returns a
\* value, returns empty or waits, the slots and lastFrame change only in a
\* step of insertCameraData.
C31_GetCameraDataOnlyReads ==
    [][(cameraData' # cameraData \/ lastFrame' # lastFrame) => Inserts]_vars

\* A call has found the frame it asked for in a written channel and
\* returned it.
C31_Witness ==
    /\ pc["t1"] = "done"
    /\ result["t1"] \in Values
    /\ lastFrame > 0
    /\ cameraData[Slot(frameID["t1"])].first = frameID["t1"]

\* C32: whenever lastFrame > 0, the slot of lastFrame holds frame lastFrame,
\* and lastFrame is the frame of the most recently applied insert: an
\* insert of a non-zero frame its slot does not hold sets it, any other
\* step leaves it alone.
C32_LastFrameIsLastAppliedInsert ==
    /\ [](lastFrame > 0 => cameraData[Slot(lastFrame)].first = lastFrame)
    /\ [][IF /\ Inserts
             /\ LastWrite(history').frame > 0
             /\ cameraData[Slot(LastWrite(history').frame)].first
                    # LastWrite(history').frame
          THEN lastFrame' = LastWrite(history').frame
          ELSE lastFrame' = lastFrame]_vars

\* Two inserts were applied, the later one for the lower frame.
C32_Witness ==
    /\ Len(history) = 2
    /\ history[1].frame > history[2].frame
    /\ history[2].frame > 0
    /\ lastFrame = history[2].frame

\* VkResult values that are neither VK_SUCCESS nor an error.
StatusCodes == {"VK_SUBOPTIMAL_KHR"}

\* C33: in the wrappers that look at their hooks' results, a before-hook or
\* after-hook that returns a status code which is not an error ends the
\* dispatch as an error does: the code is returned, no later hook runs, and
\* after such a before-hook the native call is not made.
C33_StatusCodeAbortsDispatch ==
    \A c \in Callers :
        \A k \in EventsOf(c, "before") \cup EventsOf(c, "after") :
            (/\ functionID[c] \notin VoidEntryPoints
             /\ events[c][k].ret \in StatusCodes) =>
                /\ hpc[c] = "returned"
                /\ vkResult[c] = events[c][k].ret
                /\ Len(events[c]) = k
                /\ events[c][k].kind = "before" => ~RealInvoked(c)

\* The first of two before-hooks of vkAcquireNextImageKHR returned
\* VK_SUBOPTIMAL_KHR: the dispatch returned it without the second hook and
\* without the native call.
C33_Witness ==
    /\ hpc["app1"] = "returned"
    /\ functionID["app1"] = "vkAcquireNextImageKHR"
    /\ nBefore["app1"] = 2
    /\ Len(events["app1"]) = 1
    /\ events["app1"][1].kind = "before"
    /\ events["app1"][1].ret \in StatusCodes
    /\ vkResult["app1"] \in StatusCodes

\* C34: a dispatch of vkDestroySwapchainKHR or vkDestroySurfaceKHR runs
\* every registered before-hook, in order, whatever the hooks do, and makes
\* the native destroy call exactly when the skip flag is false after the
\* last before-hook.
C34_VoidWrappersRunEveryBeforeHook ==
    \A c \in Callers :
        (functionID[c] \in VoidEntryPoints /\ hpc[c] = "returned") =>
            /\ Cardinality(EventsOf(c, "before")) = nBefore[c]
            /\ \A j \in 1 .. nBefore[c] :
                   events[c][j].kind = "before" /\ events[c][j].i = j
            /\ EventsOf(c, "after") = {}
            /\ RealInvoked(c) <=> ~skip[c]
            /\ Cardinality(EventsOf(c, "real")) <= 1
            /\ skip[c] <=> OwnSkip(c)

\* Both before-hooks of vkDestroySwapchainKHR ran although the first one
\* reported an error; it also set skip, so the destroy call was not made.
C34_Witness ==
    /\ hpc["app1"] = "returned"
    /\ functionID["app1"] = "vkDestroySwapchainKHR"
    /\ nBefore["app1"] = 2
    /\ Len(events["app1"]) = 2
    /\ events["app1"][1].ret \in FailureCodes
    /\ events["app1"][1].skipOp = "set"
    /\ events["app1"][2].kind = "before"
    /\ skip["app1"]

\* C35: in a returned dispatch of vkCreateSwapchainKHR, vkQueuePresentKHR or
\* vkCreateWin32SurfaceKHR whose before-hooks all succeeded, the after-hooks
\* ran, from the first one up to the first that did not succeed, whatever
\* the native call returned and whether or not it was skipped; the value
\* returned is that of the last after-hook that ran if any is registered,
\* else the native call's result, or VK_SUCCESS if the call was skipped.
C35_AfterHooksDecideResult ==
    \A c \in Callers :
        (/\ functionID[c] \in FullEntryPoints
         /\ hpc[c] = "returned"
         /\ BeforeHooksPassed(c)) =>
            LET A == EventsOf(c, "after")
                R == EventsOf(c, "real")
            IN  /\ nAfter[c] > 0 =>
                       /\ A # {}
                       /\ vkResult[c] = events[c][MaxOf(A)].ret
                       /\ \/ Cardinality(A) = nAfter[c]
                          \/ events[c][MaxOf(A)].ret # "VK_SUCCESS"
                /\ nAfter[c] = 0 =>
                       /\ A = {}
                       /\ vkResult[c] = IF R = {} THEN "VK_SUCCESS"
                                        ELSE events[c][MaxOf(R)].ret

\* The native vkQueuePresentKHR failed, the one after-hook ran all the same
\* and succeeded, and the dispatch returned the hook's VK_SUCCESS.
C35_Witness ==
    /\ hpc["app1"] = "returned"
    /\ functionID["app1"] = "vkQueuePresentKHR"
    /\ nAfter["app1"] = 1
    /\ \E k \in EventsOf("app1", "real") :
           events["app1"][k].ret \in FailureCodes
    /\ EventsOf("app1", "after") # {}
    /\ vkResult["app1"] = "VK_SUCCESS"

\* C37: the predicted channel changes only in a slReflexSetCameraData(f)
\* with f > 0 made after slReflexGetPredictedCameraData was called, and then
\* by an entry for f; predictCamera is set by that getter only and never
\* cleared; so the first slReflexGetPredictedCameraData ever, asked for a
\* frame f > 0, returns an error, also when the sim channel holds f.
C37_PredictionOnlyAfterFirstRequest ==
    [][/\ predCameraData' # predCameraData =>
            /\ lastCall'.op = "slReflexSetCameraData"
            /\ lastCall'.frame > 0
            /\ predictCamera
            /\ predCameraData'.cameraData[
                   lastCall'.frame % MAX_FRAMES_IN_FLIGHT].first
                       = lastCall'.frame
       /\ predictCamera' # predictCamera =>
            /\ predictCamera'
            /\ lastCall'.op = "slReflexGetPredictedCameraData"
       /\ (/\ lastCall'.op = "slReflexGetPredictedCameraData"
           /\ ~predictCamera
           /\ lastCall'.frame > 0) =>
              apiResult' = "eErrorInvalidState"]_vars

\* Camera data was set for a frame f > 0, then the predicted data of f was
\* asked for: the sim channel holds f, the predicted channel is empty and
\* the getter returned the error.
C37_Witness ==
    /\ lastCall.op = "slReflexGetPredictedCameraData"
    /\ lastCall.frame > 0
    /\ setCalls = 1
    /\ ChannelHolds(simCameraData, lastCall.frame)
    /\ predCameraData = EmptyChannel(DefaultPredictedCameraData)
    /\ apiResult = "eErrorInvalidState"

(***************************************************************************)
(* Name resolution: vkGetInstanceProcAddr and vkGetDeviceProcAddr          *)
(* (source/core/sl.interposer/vulkan/wrapper.cpp).                         *)
(***************************************************************************)

\* The SL_INTERCEPT lines of vkGetInstanceProcAddr.
InstanceIntercepts ==
    {"vkGetInstanceProcAddr", "vkGetDeviceProcAddr", "vkCreateInstance",
     "vkDestroyInstance", "vkCreateDevice", "vkDestroyDevice",
     "vkEnumeratePhysicalDevices", "vkQueuePresentKHR", "vkCreateImage",
     "vkCmdPipelineBarrier", "vkCmdBindPipeline", "vkCmdBindDescriptorSets",
     "vkCreateSwapchainKHR", "vkDestroySwapchainKHR",
     "vkGetSwapchainImagesKHR", "vkAcquireNextImageKHR",
     "vkAcquireNextImage2KHR", "vkBeginCommandBuffer", "vkDeviceWaitIdle"}

\* The SL_INTERCEPT lines of vkGetDeviceProcAddr.
DeviceIntercepts ==
    {"vkGetInstanceProcAddr", "vkGetDeviceProcAddr", "vkQueuePresentKHR",
     "vkCreateImage", "vkCmdPipelineBarrier", "vkCmdBindPipeline",
     "vkCmdBindDescriptorSets", "vkCreateSwapchainKHR",
     "vkGetSwapchainImagesKHR", "vkDestroySwapchainKHR",
     "vkAcquireNextImageKHR", "vkAcquireNextImage2KHR",
     "vkBeginCommandBuffer", "vkDeviceWaitIdle"}

\* SL_INTERCEPT(F): strcmp(pName, #F) == 0 returns the interposer's F;
\* a name on no line goes to the next GetProcAddr, the driver's.
Resolve(intercepts, pName) ==
    IF pName \in intercepts THEN "wrapper" ELSE "driver"

\* loadVulkanLibrary: a loaded library stays loaded; otherwise LoadLibraryA
\* is tried, and it succeeds (loaded) or fails.
loadVulkanLibrary(loaded) ==
    s_module' = IF s_module THEN TRUE ELSE loaded

\* vkGetInstanceProcAddr(instance, pName).
vkGetInstanceProcAddr(pName, loaded) ==
    /\ loadVulkanLibrary(loaded)
    /\ instanceProcs' =
           [instanceProcs EXCEPT ![pName] =
               IF ~s_module'
               THEN "nullptr"
               ELSE Resolve(InstanceIntercepts, pName)]
    /\ UNCHANGED <<deviceProcs, camVars, reflexVars, hookVars, tagVars,
                   meterVars>>

\* vkGetDeviceProcAddr(device, pName).
vkGetDeviceProcAddr(pName, loaded) ==
    /\ loadVulkanLibrary(loaded)
    /\ deviceProcs' =
           [deviceProcs EXCEPT ![pName] =
               IF ~s_module'
               THEN "nullptr"
               ELSE Resolve(DeviceIntercepts, pName)]
    /\ UNCHANGED <<instanceProcs, camVars, reflexVars, hookVars, tagVars,
                   meterVars>>

ProcNext ==
    \/ \E pName \in ProcNames, loaded \in BOOLEAN :
           vkGetInstanceProcAddr(pName, loaded)
    \/ \E pName \in DeviceProcNames, loaded \in BOOLEAN :
           vkGetDeviceProcAddr(pName, loaded)

ProcSpec == Init /\ [][ProcNext]_vars

\* C36: a pointer the application got from vkGetInstanceProcAddr for an
\* entry point whose wrapper runs hooks is the interposer's wrapper, never
\* the driver's function.
C36_InstanceResolutionReturnsWrappers ==
    \A fn \in EntryPoints :
        instanceProcs[fn] # "nullptr" => instanceProcs[fn] = "wrapper"

(***************************************************************************)
(* TAverageValueMeter (source/core/sl.extra/extra.h).                      *)
(***************************************************************************)

\* Mutant: the oldest value leaves the sum one call late.
WindowFull_Mut == meter.n > MeterWindow

\* if (n >= window.size())
WindowFull == meter.n >= MeterWindow

\* What reading window[i] gives: the value written there, any value when
\* nothing was written.
ReadWindow(i) ==
    IF i \in windowWritten THEN {meter.window[i]} ELSE MeterValues

\* void add(double value)
add(value) ==
    /\ Len(added) < MaxAdds
    /\ LET i == meter.n % MeterWindow
       IN \E old \in (IF WindowFull THEN ReadWindow(i) ELSE {0}) :
              LET sum == meter.sum + value - old
                  n == meter.n + 1
              IN meter' = [n |-> n,
                           val |-> value,
                           sum |-> sum,
                           mean |-> Quotient(sum, Min(n, MeterWindow)),
                           window |-> [meter.window EXCEPT ![i] = value]]
    /\ windowWritten' = windowWritten \cup {meter.n % MeterWindow}
    /\ added' = Append(added, value)
    /\ UNCHANGED <<camVars, reflexVars, hookVars, tagVars, procVars>>

\* void reset()
reset ==
    /\ meter' = [n |-> 0, val |-> 0, sum |-> 0, mean |-> Quotient(0, 1),
                 window |-> [i \in WindowIndexes |-> 0]]
    /\ windowWritten' = WindowIndexes
    /\ added' = <<>>
    /\ UNCHANGED <<camVars, reflexVars, hookVars, tagVars, procVars>>

MeterNext ==
    \/ \E value \in MeterValues : add(value)
    \/ reset

MeterSpec == Init /\ [][MeterNext]_vars

RECURSIVE SumOf(_)
SumOf(q) == IF q = <<>> THEN 0 ELSE Head(q) + SumOf(Tail(q))

\* The last k elements of q.
LastOf(q, k) == SubSeq(q, Len(q) - k + 1, Len(q))

\* C38: after add calls on a constructed or reset meter, n is the number of
\* calls, sum is the sum of the last min(n, W) added values, mean is
\* sum / min(n, W) and val, which getValue returns, is the last added value.
C38_MeterTracksWindow ==
    /\ meter.n = Len(added)
    /\ meter.sum = SumOf(LastOf(added, Min(Len(added), MeterWindow)))
    /\ added # <<>> =>
          /\ meter.mean = Quotient(
                 SumOf(LastOf(added, Min(Len(added), MeterWindow))),
                 Min(Len(added), MeterWindow))
          /\ meter.val = added[Len(added)]

\* More values were added than the window holds, and the values that left
\* the window sum to something other than zero.
C38_Witness ==
    /\ Len(added) > MeterWindow
    /\ SumOf(added) # meter.sum
    /\ meter.sum # 0

====
